---- MODULE Spec2Model ----
(***************************************************************************)
(* State-machine model of .github/scripts/validate-geofeed.py              *)
(* (class IPGeoFeedValidator and main).                                    *)
(*                                                                         *)
(* A text line is a sequence of one-character strings.  The model's input  *)
(* alphabet has no ':' (so ipaddr never takes its IPv6 branch) and no      *)
(* dotted-quad netmask after '/': prefixes are decimal prefix lengths.     *)
(***************************************************************************)
EXTENDS Integers, Sequences, FiniteSets, TLC

VARIABLES
    line_number,      \* self.line_number
    line,             \* self.line: the current line, text from '#' on removed
    is_correct_line,  \* self.is_correct_line
    output_log,       \* self.output_log: severity -> list of formatted lines
    output_stream,    \* self.output_stream: "None" or the name of a stream
    written,          \* what each stream has received, in order
    pc,               \* where the caller is
    caller,           \* "main" (the command line), "api" (a program), "unit"
    exit_status,      \* the process's exit status once pc = "exited"
    raised,           \* an exception left Validate uncaught
    fields,           \* the field list last handed to _ValidateFields
    validated,        \* how many times _ValidateFields was entered
    history,          \* every line given to _ValidateLine, with the stream then set
    calls,            \* line_number at the start of each Validate call
    arg,              \* the field check called and its argument (caller "unit")
    result            \* the value that field check returned

vars == <<line_number, line, is_correct_line, output_log, output_stream,
          written, pc, caller, exit_status, raised, fields, validated, history,
          calls, arg, result>>

(***************************************************************************)
(* Bounds of the model.                                                    *)
(***************************************************************************)
MaxLines == 2
MaxCalls == 2
MaxCodeLen == 4

(***************************************************************************)
(* Python str operations on sequences of characters.                       *)
(***************************************************************************)
Digits == {"0", "1", "2", "3", "4", "5", "6", "7", "8", "9"}
Letters == {"A", "C", "S", "U", "a", "b", "c", "s", "u", "x"}
Whitespace == {" ", "\t", "\n", "\r"}
Newlines == {"\n", "\r"}

\* x in s, for a one-character x
Contains(s, c) == \E i \in 1..Len(s) : s[i] = c

\* s.find(c) counted from 1, or Len(s) + 1 when c is not in s
FirstIndex(s, c) ==
    IF Contains(s, c)
    THEN CHOOSE i \in 1..Len(s) : s[i] = c /\ \A j \in 1..(i - 1) : s[j] # c
    ELSE Len(s) + 1

\* s.split(c)
RECURSIVE Split(_, _)
Split(s, c) ==
    LET k == FirstIndex(s, c)
    IN  IF k > Len(s) THEN <<s>>
        ELSE <<SubSeq(s, 1, k - 1)>> \o Split(SubSeq(s, k + 1, Len(s)), c)

\* s.rstrip(chars)
RECURSIVE RStrip(_, _)
RStrip(s, chars) ==
    IF Len(s) > 0 /\ s[Len(s)] \in chars
    THEN RStrip(SubSeq(s, 1, Len(s) - 1), chars)
    ELSE s

\* s.lstrip(chars)
RECURSIVE LStrip(_, _)
LStrip(s, chars) ==
    IF Len(s) > 0 /\ s[1] \in chars THEN LStrip(Tail(s), chars) ELSE s

\* s.strip()
Strip(s) == LStrip(RStrip(s, Whitespace), Whitespace)

\* s.startswith(c)
StartsWith(s, c) == Len(s) > 0 /\ s[1] = c

\* s.isalpha()
IsAlpha(s) == Len(s) > 0 /\ \A i \in 1..Len(s) : s[i] \in Letters

\* the text of the characters s[lo..hi], as '%s' prints it (joined by halves)
RECURSIVE StrOf(_, _, _)
StrOf(s, lo, hi) ==
    IF lo > hi THEN ""
    ELSE IF lo = hi THEN s[lo]
    ELSE StrOf(s, lo, (lo + hi) \div 2) \o StrOf(s, (lo + hi) \div 2 + 1, hi)

Str(s) == StrOf(s, 1, Len(s))

\* int(s, 10) for a non-empty string of digits
DigitValue(c) ==
    CASE c = "0" -> 0 [] c = "1" -> 1 [] c = "2" -> 2 [] c = "3" -> 3
      [] c = "4" -> 4 [] c = "5" -> 5 [] c = "6" -> 6 [] c = "7" -> 7
      [] c = "8" -> 8 [] c = "9" -> 9

RECURSIVE DecValue(_)
DecValue(s) ==
    IF s = <<>> THEN 0
    ELSE 10 * DecValue(SubSeq(s, 1, Len(s) - 1)) + DigitValue(s[Len(s)])

AllDigits(s) == \A i \in 1..Len(s) : s[i] \in Digits

(***************************************************************************)
(* csv.reader([line]) with the default dialect (delimiter ',', quotechar   *)
(* '"', doublequote, not strict): the reader's character automaton.        *)
(***************************************************************************)
EOL == "EOL"

\* one step of the automaton: st is the parser state, fs the fields saved,
\* cur the field being collected, c a character of the line or EOL
CsvChar(st, fs, cur, c) ==
    LET save(next) == [st |-> next, fs |-> Append(fs, cur), cur |-> <<>>]
        add(next)  == [st |-> next, fs |-> fs, cur |-> Append(cur, c)]
        stay(next) == [st |-> next, fs |-> fs, cur |-> cur]
        st1 == IF st = "START_RECORD" /\ c # EOL /\ c \notin Newlines
               THEN "START_FIELD" ELSE st
    IN  CASE st1 = "START_RECORD" ->
               IF c = EOL THEN stay("START_RECORD") ELSE stay("EAT_CRNL")
          [] st1 = "START_FIELD" ->
               IF c \in Newlines \/ c = EOL
               THEN save(IF c = EOL THEN "START_RECORD" ELSE "EAT_CRNL")
               ELSE IF c = "\"" THEN stay("IN_QUOTED_FIELD")
               ELSE IF c = "," THEN save("START_FIELD")
               ELSE add("IN_FIELD")
          [] st1 = "IN_FIELD" ->
               IF c \in Newlines \/ c = EOL
               THEN save(IF c = EOL THEN "START_RECORD" ELSE "EAT_CRNL")
               ELSE IF c = "," THEN save("START_FIELD")
               ELSE add("IN_FIELD")
          [] st1 = "IN_QUOTED_FIELD" ->
               IF c = EOL THEN stay("IN_QUOTED_FIELD")
               ELSE IF c = "\"" THEN stay("QUOTE_IN_QUOTED_FIELD")
               ELSE add("IN_QUOTED_FIELD")
          [] st1 = "QUOTE_IN_QUOTED_FIELD" ->
               IF c = "\"" THEN add("IN_QUOTED_FIELD")
               ELSE IF c = "," THEN save("START_FIELD")
               ELSE IF c \in Newlines \/ c = EOL
               THEN save(IF c = EOL THEN "START_RECORD" ELSE "EAT_CRNL")
               ELSE add("IN_FIELD")
          [] st1 = "EAT_CRNL" ->
               IF c \in Newlines THEN stay("EAT_CRNL")
               ELSE IF c = EOL THEN stay("START_RECORD")
               ELSE stay("ERROR")   \* "new-line character seen in unquoted field"
          [] st1 = "ERROR" -> stay("ERROR")

\* the automaton run over the characters s[lo..hi] from state p (the range
\* is run by halves, first half first)
RECURSIVE CsvRun(_, _, _, _)
CsvRun(s, lo, hi, p) ==
    IF p.st = "ERROR" \/ lo > hi THEN p      \* the reader stops at an error
    ELSE IF lo = hi THEN CsvChar(p.st, p.fs, p.cur, s[lo])
    ELSE CsvRun(s, (lo + hi) \div 2 + 1, hi, CsvRun(s, lo, (lo + hi) \div 2, p))

\* the state after the whole line and the end-of-line mark
CsvLine(p) == CsvChar(p.st, p.fs, p.cur, EOL)

\* [field for field in csv.reader([s])]: the rows read, or csv.Error raised
CsvReader(s) ==
    LET p == CsvLine(CsvRun(s, 1, Len(s),
                            [st |-> "START_RECORD", fs |-> <<>>, cur |-> <<>>]))
    IN  IF p.st = "ERROR" THEN [raised |-> TRUE, rows |-> <<>>]
        ELSE IF p.st = "START_RECORD" THEN [raised |-> FALSE, rows |-> <<p.fs>>]
        \* the input ends inside a record: an open quoted field is saved
        ELSE IF Len(p.cur) # 0 \/ p.st = "IN_QUOTED_FIELD"
        THEN [raised |-> FALSE, rows |-> <<Append(p.fs, p.cur)>>]
        ELSE [raised |-> FALSE, rows |-> <<>>]

(***************************************************************************)
(* ipaddr.IPAddress and ipaddr.IPNetwork on IPv4 text.  An address is its  *)
(* four octets; a failed parse (any exception of ipaddr) is ok = FALSE.    *)
(***************************************************************************)
\* IPv4Address._parse_octet
OctetOK(s) ==
    /\ Len(s) \in 1..3
    /\ AllDigits(s)
    /\ DecValue(s) <= 255
    /\ ~(s[1] = "0" /\ Len(s) > 1)

\* IPv4Address._ip_int_from_string
IPv4FromString(s) ==
    LET octets == Split(s, ".")
    IN  IF Len(octets) = 4 /\ \A i \in 1..4 : OctetOK(octets[i])
        THEN [ok |-> TRUE, ip |-> [i \in 1..4 |-> DecValue(octets[i])]]
        ELSE [ok |-> FALSE, ip |-> <<>>]

RECURSIVE Pow2(_)
Pow2(n) == IF n = 0 THEN 1 ELSE 2 * Pow2(n - 1)

\* ip & netmask, for the netmask of prefix length plen
MaskIP(ip, plen) ==
    [i \in 1..4 |->
        LET upto == 8 * i
            hostbits == IF plen >= upto THEN 0
                        ELSE IF plen <= upto - 8 THEN 8
                        ELSE upto - plen
        IN  ip[i] - (ip[i] % Pow2(hostbits))]

\* IPv4Address.is_private: 10.0.0.0/8, 172.16.0.0/12, 192.168.0.0/16
IsPrivate(ip) ==
    \/ ip[1] = 10
    \/ ip[1] = 172 /\ ip[2] \in 16..31
    \/ ip[1] = 192 /\ ip[2] = 168

\* ipaddr.IPAddress(s)
IPAddress(s) == IPv4FromString(s)

\* int(s): surrounding whitespace and one sign are accepted; ok = FALSE is
\* ValueError.  A number of more than 9 digits is only known to exceed 32.
IntOf(s) ==
    LET t == Strip(s)
        neg == StartsWith(t, "-")
        body == IF StartsWith(t, "-") \/ StartsWith(t, "+") THEN Tail(t) ELSE t
        sig == LStrip(body, {"0"})
    IN  IF Len(body) = 0 \/ ~AllDigits(body) THEN [ok |-> FALSE, value |-> 0]
        ELSE IF Len(sig) > 9 THEN [ok |-> TRUE, value |-> IF neg THEN -33 ELSE 33]
        ELSE [ok |-> TRUE, value |-> IF neg THEN -DecValue(sig) ELSE DecValue(sig)]

\* IPv4Network._is_valid_netmask for a prefix length: int(s) in 0..32
PrefixOK(s) == IntOf(s).ok /\ IntOf(s).value \in 0..32

\* ipaddr.IPNetwork(s): _ip is the address as written, network the
\* address with the host bits cleared
IPNetwork(s) ==
    LET addr == Split(s, "/")
        a == IPv4FromString(addr[1])
    IN  IF Len(addr) > 2 \/ ~a.ok THEN [ok |-> FALSE, ip |-> <<>>, network |-> <<>>]
        ELSE IF Len(addr) = 1
        THEN [ok |-> TRUE, ip |-> a.ip, network |-> a.ip]
        ELSE IF PrefixOK(addr[2])
        THEN [ok |-> TRUE, ip |-> a.ip, network |-> MaskIP(a.ip, IntOf(addr[2]).value)]
        ELSE [ok |-> FALSE, ip |-> <<>>, network |-> <<>>]

(***************************************************************************)
(* class IPGeoFeedValidator.  The object is the record `self`; a method    *)
(* is an operator from the object (and its arguments) to the object after  *)
(* the call, with the value returned where the code returns one.  An       *)
(* exception that leaves a method sets self.raised.                        *)
(***************************************************************************)
Severities == {"ERROR", "WARNING"}
Streams == {"stderr"}
None == "None"
Unset == "unset"          \* an attribute __init__ does not create

\* IPGeoFeedValidator.__init__
NewValidator ==
    [line_number |-> 0, line |-> Unset, is_correct_line |-> Unset,
     output_log |-> [sev \in {} |-> <<>>], output_stream |-> "stderr",
     written |-> [st \in Streams |-> <<>>], raised |-> FALSE, fields |-> Unset,
     validated |-> 0]

\* IPGeoFeedValidator.SetOutputStream
SetOutputStream(self, logfile) == [self EXCEPT !.output_stream = logfile]

\* len(self.output_log.get(severity, []))
CountErrorsOf(log, severity) ==
    IF severity \in DOMAIN log THEN Len(log[severity]) ELSE 0

\* IPGeoFeedValidator.CountErrors
CountErrors(self, severity) == CountErrorsOf(self.output_log, severity)

\* a mutation of _ReportWithSeverity: nothing is logged without a stream
_ReportWithSeverity_LogOnlyWithStream(self, severity, message) ==
    LET output_line == severity \o ": " \o message \o "\n"
        log0 == IF severity \in DOMAIN self.output_log THEN self.output_log
                ELSE self.output_log @@ (severity :> <<>>)
    IN  IF self.output_stream = None
        THEN [self EXCEPT !.is_correct_line = FALSE]
        ELSE [self EXCEPT
                !.is_correct_line = FALSE,
                !.output_log = [log0 EXCEPT ![severity] = Append(@, output_line)],
                !.written = [@ EXCEPT ![self.output_stream] = Append(@, output_line)]]

\* IPGeoFeedValidator._ReportWithSeverity
_ReportWithSeverity(self, severity, message) ==
    LET output_line == severity \o ": " \o message \o "\n"
        log0 == IF severity \in DOMAIN self.output_log THEN self.output_log
                ELSE self.output_log @@ (severity :> <<>>)
    IN  [self EXCEPT
            !.is_correct_line = FALSE,
            !.output_log = [log0 EXCEPT ![severity] = Append(@, output_line)],
            !.written = IF self.output_stream # None
                        THEN [@ EXCEPT ![self.output_stream] = Append(@, output_line)]
                        ELSE @]

\* IPGeoFeedValidator._ReportError
_ReportError(self, message) == _ReportWithSeverity(self, "ERROR", message)

\* IPGeoFeedValidator._ReportWarning
_ReportWarning(self, message) == _ReportWithSeverity(self, "WARNING", message)

\* a mutation of _FlushOutputStream: the context block is written for every line
_FlushOutputStream_Always(self) ==
    IF self.raised THEN self
    ELSE IF self.output_stream = None THEN self
    ELSE [self EXCEPT !.written[self.output_stream] =
            Append(@, "line " \o ToString(self.line_number) \o ": "
                      \o Str(self.line) \o "\n\n")]

\* IPGeoFeedValidator._FlushOutputStream
_FlushOutputStream(self) ==
    IF self.raised THEN self          \* not reached: the exception propagates
    ELSE IF self.is_correct_line THEN self
    ELSE IF self.output_stream = None THEN self
    ELSE [self EXCEPT !.written[self.output_stream] =
            Append(@, "line " \o ToString(self.line_number) \o ": "
                      \o Str(self.line) \o "\n\n")]

\* a mutation of _IsCIDRCorrect: the first `return False` belongs to its `if`,
\* so the private-range check is reached
_IsCIDRCorrect_PrivateChecked(self, cidr) ==
    LET ipprefix == IPNetwork(cidr)
    IN  IF ~ipprefix.ok
        THEN [self |-> _ReportError(self, "Incorrect IP Network."), ret |-> FALSE]
        ELSE IF ipprefix.network # ipprefix.ip
        THEN [self |-> _ReportError(self, "Incorrect IP Network."), ret |-> FALSE]
        ELSE IF IsPrivate(ipprefix.ip)
        THEN [self |-> _ReportError(self, "IP Address must not be private."),
              ret |-> FALSE]
        ELSE [self |-> self, ret |-> TRUE]

\* IPGeoFeedValidator._IsCIDRCorrect: the `return False` after the first `if`
\* is unconditional, the statements after it are never run
_IsCIDRCorrect(self, cidr) ==
    LET ipprefix == IPNetwork(cidr)
    IN  IF ~ipprefix.ok        \* except: any exception of ipaddr.IPNetwork
        THEN [self |-> _ReportError(self, "Incorrect IP Network."), ret |-> FALSE]
        ELSE IF ipprefix.network # ipprefix.ip
        THEN [self |-> _ReportError(self, "Incorrect IP Network."), ret |-> FALSE]
        ELSE [self |-> self, ret |-> FALSE]

\* IPGeoFeedValidator._IsIPAddressCorrect
_IsIPAddressCorrect(self, ipaddress) ==
    LET ip == IPAddress(ipaddress)
    IN  IF ~ip.ok
        THEN [self |-> _ReportError(self, "Incorrect IP Address."), ret |-> FALSE]
        ELSE IF IsPrivate(ip.ip)
        THEN [self |-> _ReportError(self, "IP Address must not be private."),
              ret |-> FALSE]
        ELSE [self |-> self, ret |-> TRUE]

\* IPGeoFeedValidator._IsIPAddressOrPrefixCorrect
_IsIPAddressOrPrefixCorrect(self, field) ==
    IF Contains(field, "/") THEN _IsCIDRCorrect(self, field)
    ELSE _IsIPAddressCorrect(self, field)

\* IPGeoFeedValidator._IsAlpha2CodeCorrect
_IsAlpha2CodeCorrect(self, alpha2code) ==
    IF Len(alpha2code) = 0 THEN [self |-> self, ret |-> TRUE]
    ELSE IF Len(alpha2code) # 2 \/ ~IsAlpha(alpha2code)
    THEN [self |-> _ReportError(self,
                     "Alpha 2 code must be in the ISO 3166-1 alpha 2 format."),
          ret |-> FALSE]
    ELSE [self |-> self, ret |-> TRUE]

\* `if not x: return False` then `return True`, x a call that returned r
FalseUnless(r) ==
    IF ~r.ret THEN [self |-> r.self, ret |-> FALSE]
    ELSE [self |-> r.self, ret |-> TRUE]

\* a mutation of _IsRegionCodeCorrect: the part after the '-' is checked
_IsRegionCodeCorrect_LastPart(self, region_code) ==
    IF Len(region_code) = 0 THEN [self |-> self, ret |-> TRUE]
    ELSE IF ~Contains(region_code, "-")
    THEN [self |-> _ReportError(self, "Region code must be in ISO 3166-2 format."),
          ret |-> FALSE]
    ELSE FalseUnless(_IsAlpha2CodeCorrect(self, Split(region_code, "-")[2]))

\* IPGeoFeedValidator._IsRegionCodeCorrect
_IsRegionCodeCorrect(self, region_code) ==
    IF Len(region_code) = 0 THEN [self |-> self, ret |-> TRUE]
    ELSE IF ~Contains(region_code, "-")
    THEN [self |-> _ReportError(self, "Region code must be in ISO 3166-2 format."),
          ret |-> FALSE]
    ELSE FalseUnless(_IsAlpha2CodeCorrect(self, Split(region_code, "-")[1]))

\* _ValidateFields, `if len(fields) > 1`: the country code.  The value the
\* checks return goes to the local is_correct, which nobody reads.
ValidateCountry(self, fs) ==
    IF Len(fs) > 1 THEN _IsAlpha2CodeCorrect(self, fs[2]).self ELSE self

\* _ValidateFields, `if len(fields) > 2`: the region code
ValidateRegion(self, fs) ==
    IF Len(fs) > 2 THEN _IsRegionCodeCorrect(self, fs[3]).self ELSE self

\* a mutation of the field count check: only too few fields are reported
ValidateCount_TooFewOnly(self, fs) ==
    IF Len(fs) < 5
    THEN _ReportWarning(self, "5 fields were expected (got "
                              \o ToString(Len(fs)) \o ").")
    ELSE self

\* _ValidateFields, `if len(fields) != 5`: the field count
ValidateCount(self, fs) ==
    IF Len(fs) # 5
    THEN _ReportWarning(self, "5 fields were expected (got "
                              \o ToString(Len(fs)) \o ").")
    ELSE self

\* IPGeoFeedValidator._ValidateFields
_ValidateFields(self, fs) ==
    IF ~(Len(fs) > 0) THEN [self EXCEPT !.raised = TRUE]   \* AssertionError
    ELSE ValidateCount(
             ValidateRegion(
                 ValidateCountry(_IsIPAddressOrPrefixCorrect(self, fs[1]).self, fs),
                 fs),
             fs)

\* a mutation of _ShouldIgnoreLine: the '#' is looked for before stripping
_ShouldIgnoreLine_NoStrip(l) ==
    IF StartsWith(l, "#") THEN TRUE ELSE Len(Strip(l)) = 0

\* IPGeoFeedValidator._ShouldIgnoreLine
_ShouldIgnoreLine(l) ==
    IF StartsWith(Strip(l), "#") THEN TRUE ELSE Len(Strip(l)) = 0

\* _ValidateLine, after the field split: rd is what csv.reader gave.  Taking
\* [0] of no rows is an IndexError; an exception skips _FlushOutputStream.
ValidateRecord(self, rd) ==
    IF rd.raised \/ Len(rd.rows) = 0 THEN [self EXCEPT !.raised = TRUE]
    ELSE _FlushOutputStream(
             _ValidateFields([self EXCEPT !.fields = rd.rows[1],
                                         !.validated = @ + 1], rd.rows[1]))

\* _ValidateLine, from `if self._ShouldIgnoreLine(line)`: l is the local
\* `line`, the line without its terminators
ValidateStripped(self, l) ==
    IF _ShouldIgnoreLine(l) THEN self
    ELSE ValidateRecord(self, CsvReader(l))

\* the first statements of _ValidateLine, l the line without its terminators
BeginLine(self, l) ==
    [self EXCEPT !.line_number = @ + 1,
                 !.line = Split(l, "#")[1],
                 !.is_correct_line = TRUE]

\* IPGeoFeedValidator._ValidateLine
_ValidateLine(self, l0) ==
    ValidateStripped(BeginLine(self, RStrip(l0, Newlines)), RStrip(l0, Newlines))

(***************************************************************************)
(* The feed: the lines an iterable may produce.                            *)
(***************************************************************************)
\* '\n'
BlankLine ==
    <<"\n">>

\* ' #c\n'
CommentLine ==
    <<" ", "#", "c", "\n">>

\* '1.1.1.1,US,US-CA,,\n'
GoodLine ==
    <<"1", ".", "1", ".", "1", ".", "1", ",", "U", "S", ",", "U", "S", "-", "C", "A", ",", ",", "\n">>

\* '10.0.0.1,USA,CA,,\n'
BadCodesLine ==
    <<"1", "0", ".", "0", ".", "0", ".", "1", ",", "U", "S", "A", ",", "C", "A", ",", ",", "\n">>

\* '256.1.1.1,US\n'
BadAddressLine ==
    <<"2", "5", "6", ".", "1", ".", "1", ".", "1", ",", "U", "S", "\n">>

\* '1.1.1.1,US,US-CA,,#a,b\n'
CommentFieldsLine ==
    <<"1", ".", "1", ".", "1", ".", "1", ",", "U", "S", ",", "U", "S", "-", "C", "A", ",", ",", "#", "a", ",", "b", "\n">>

\* '10.0.0.1/8,,,,\r\n'
HostBitsCIDRLine ==
    <<"1", "0", ".", "0", ".", "0", ".", "1", "/", "8", ",", ",", ",", ",", "\r", "\n">>

\* '"1.1.1.1","U,S",,,\n'
QuotedLine ==
    <<"\"", "1", ".", "1", ".", "1", ".", "1", "\"", ",", "\"", "U", ",", "S", "\"", ",", ",", ",", "\n">>

\* '1.1.1.1\r,US,,,\n'
EmbeddedCRLine ==
    <<"1", ".", "1", ".", "1", ".", "1", "\r", ",", "U", "S", ",", ",", ",", "\n">>

Lines ==
    {BlankLine,
     CommentLine,
     GoodLine,
     BadCodesLine,
     BadAddressLine,
     CommentFieldsLine,
     HostBitsCIDRLine,
     QuotedLine,
     EmbeddedCRLine}

(***************************************************************************)
(* The callers.  main() builds a validator, validates the standard input   *)
(* once and exits; a program ("api") may set the stream and call Validate  *)
(* several times.  The iterable produces its next line or ends.            *)
(***************************************************************************)
Self ==
    [line_number |-> line_number, line |-> line,
     is_correct_line |-> is_correct_line, output_log |-> output_log,
     output_stream |-> output_stream, written |-> written,
     raised |-> raised, fields |-> fields, validated |-> validated]

Becomes(self) ==
    /\ line_number' = self.line_number
    /\ line' = self.line
    /\ is_correct_line' = self.is_correct_line
    /\ output_log' = self.output_log
    /\ output_stream' = self.output_stream
    /\ written' = self.written
    /\ raised' = self.raised
    /\ fields' = self.fields
    /\ validated' = self.validated

Init ==
    /\ line_number = NewValidator.line_number
    /\ line = NewValidator.line
    /\ is_correct_line = NewValidator.is_correct_line
    /\ output_log = NewValidator.output_log
    /\ output_stream = NewValidator.output_stream
    /\ written = NewValidator.written
    /\ raised = NewValidator.raised
    /\ fields = NewValidator.fields
    /\ validated = NewValidator.validated
    /\ caller \in {"main", "api"}
    /\ pc = "idle"
    /\ exit_status = Unset
    /\ history = <<>>
    /\ calls = <<>>
    /\ arg = Unset
    /\ result = Unset

\* a mutation of the entry of Validate: the run state is reset
ValidateEnter_Reset(self) ==
    [self EXCEPT !.line_number = 0, !.output_log = [sev \in {} |-> <<>>]]

\* IPGeoFeedValidator.Validate, up to its loop: nothing is reset
ValidateEnter(self) == self

\* feed_validator.SetOutputStream(logfile) is called
CallSetOutputStream(logfile) ==
    /\ caller = "api"
    /\ pc = "idle"
    /\ logfile # output_stream
    /\ Becomes(SetOutputStream(Self, logfile))
    /\ UNCHANGED <<pc, caller, exit_status, history, calls, arg, result>>

\* feed_validator.Validate(feed) is called
ValidateCall ==
    /\ pc = "idle"
    /\ Len(calls) < (IF caller = "main" THEN 1 ELSE MaxCalls)
    /\ Becomes(ValidateEnter(Self))
    /\ calls' = Append(calls, line_number)
    /\ pc' = "validating"
    /\ UNCHANGED <<caller, exit_status, history, arg, result>>

\* the caller after _ValidateLine left the validator as `self`: an exception
\* is caught neither by Validate nor by main, and ends the program with
\* status 1
AfterLine(self) ==
    /\ Becomes(self)
    /\ pc' = IF self.raised THEN "exited" ELSE "validating"
    /\ exit_status' = IF self.raised THEN 1 ELSE exit_status

\* for line in feed: self._ValidateLine(line)
ValidateNext(l) ==
    /\ pc = "validating"
    /\ Len(history) < MaxLines
    /\ AfterLine(_ValidateLine(Self, l))
    /\ history' = Append(history, [text |-> l, stream |-> output_stream])
    /\ UNCHANGED <<caller, calls, arg, result>>

\* the feed is exhausted: Validate returns
ValidateReturn ==
    /\ pc = "validating"
    /\ pc' = IF caller = "main" THEN "returned" ELSE "idle"
    /\ UNCHANGED <<line_number, line, is_correct_line, output_log, output_stream,
                   written, caller, exit_status, raised, fields, validated,
                   history, calls, arg, result>>

\* main: if feed_validator.CountErrors('ERROR'): sys.exit(1)
MainExit ==
    /\ caller = "main"
    /\ pc = "returned"
    /\ pc' = "exited"
    /\ exit_status' = IF CountErrors(Self, "ERROR") # 0 THEN 1 ELSE 0
    /\ UNCHANGED <<line_number, line, is_correct_line, output_log, output_stream,
                   written, caller, raised, fields, validated, history, calls,
                   arg, result>>

Next ==
    \/ \E logfile \in Streams \cup {None} : CallSetOutputStream(logfile)
    \/ ValidateCall
    \/ \E l \in Lines : ValidateNext(l)
    \/ ValidateReturn
    \/ MainExit

Spec == Init /\ [][Next]_vars

(***************************************************************************)
(* The field checks called on their own (caller "unit"): a fresh validator *)
(* and one call of a check on a field text drawn from the sets below.      *)
(***************************************************************************)
CodeChars == {"U", "s", "1", "-"}

\* every text of at most MaxCodeLen characters of CodeChars
Codes == UNION {[1..n -> CodeChars] : n \in 0..MaxCodeLen}

FirstOctets == {<<"1">>, <<"1", "0">>, <<"1", "7", "2">>, <<"1", "9", "2">>,
                <<"2", "5", "6">>}
SecondOctets == {<<"0">>, <<"1", "6">>, <<"3", "2">>, <<"1", "6", "8">>}
ThirdOctets == {<<"0">>, <<"2">>}
LastOctets == {<<"0">>, <<"1">>, <<"0", "1">>, <<"x">>, <<>>}
Prefixes == {<<>>, <<"/", "0">>, <<"/", "8">>, <<"/", "1", "2">>,
             <<"/", "1", "6">>, <<"/", "2", "4">>, <<"/", "3", "1">>,
             <<"/", "3", "2">>, <<"/", "3", "3">>, <<"/">>, <<"/", "x">>,
             <<"/", " ", "8">>, <<"/", "-", "1">>, <<"/", "8", "/", "8">>}

\* dotted quads, well formed or not, with and without a prefix length
Addresses ==
    {a \o <<".">> \o b \o <<".">> \o c \o <<".">> \o d \o p :
        a \in FirstOctets, b \in SecondOctets, c \in ThirdOctets,
        d \in LastOctets, p \in Prefixes}

FieldArgs ==
    {[check |-> "address", text |-> t] : t \in Addresses}
    \cup {[check |-> k, text |-> t] : k \in {"alpha2", "region"}, t \in Codes}

InitFields ==
    /\ line_number = NewValidator.line_number
    /\ line = NewValidator.line
    /\ is_correct_line = NewValidator.is_correct_line
    /\ output_log = NewValidator.output_log
    /\ output_stream = NewValidator.output_stream
    /\ written = NewValidator.written
    /\ raised = NewValidator.raised
    /\ fields = NewValidator.fields
    /\ validated = NewValidator.validated
    /\ caller = "unit"
    /\ pc = "idle"
    /\ exit_status = Unset
    /\ history = <<>>
    /\ calls = <<>>
    /\ arg \in FieldArgs
    /\ result = Unset

\* the caller after a field check returned r
Returned(r) ==
    /\ Becomes(r.self)
    /\ result' = r.ret
    /\ pc' = "applied"
    /\ UNCHANGED <<caller, exit_status, history, calls, arg>>

\* validator._IsIPAddressOrPrefixCorrect(text)
CallAddressCheck ==
    /\ caller = "unit" /\ pc = "idle" /\ arg.check = "address"
    /\ Returned(_IsIPAddressOrPrefixCorrect(Self, arg.text))

\* validator._IsAlpha2CodeCorrect(text)
CallAlpha2Check ==
    /\ caller = "unit" /\ pc = "idle" /\ arg.check = "alpha2"
    /\ Returned(_IsAlpha2CodeCorrect(Self, arg.text))

\* validator._IsRegionCodeCorrect(text)
CallRegionCheck ==
    /\ caller = "unit" /\ pc = "idle" /\ arg.check = "region"
    /\ Returned(_IsRegionCodeCorrect(Self, arg.text))

NextFields == CallAddressCheck \/ CallAlpha2Check \/ CallRegionCheck

FieldSpec == InitFields /\ [][NextFields]_vars

(***************************************************************************)
(* What the claims are stated with.                                        *)
(***************************************************************************)
\* the lines given to _ValidateLine so far
Consumed == 1..Len(history)

\* line i as _ValidateLine sees it, its terminators removed
Text(i) == RStrip(history[i].text, Newlines)

\* a line that is empty once surrounding whitespace is removed, or whose
\* first character that is not whitespace is '#'
IsBlankOrComment(l) ==
    \/ \A i \in 1..Len(l) : l[i] \in Whitespace
    \/ \E i \in 1..Len(l) : l[i] = "#" /\ \A j \in 1..(i - 1) : l[j] \in Whitespace

\* line i is a data line whose field split succeeds
IsRecord(i) == ~IsBlankOrComment(Text(i)) /\ ~CsvReader(Text(i)).raised

\* the fields the split of line i gives
FieldsOf(i) == CsvReader(Text(i)).rows[1]

\* the text of line i before its first '#'
BeforeComment(i) == SubSeq(Text(i), 1, FirstIndex(Text(i), "#") - 1)

RECURSIVE Flatten(_)
Flatten(ss) == IF ss = <<>> THEN <<>> ELSE Head(ss) \o Flatten(Tail(ss))

LogOf(severity) == IF severity \in DOMAIN output_log THEN output_log[severity] ELSE <<>>

NoLog == [sev \in {} |-> <<>>]

\* the validator a fresh one becomes when it is given the lines h[1..n] in
\* one Validate call, each with the stream recorded for it
RECURSIVE Replay(_, _)
Replay(h, n) ==
    IF n = 0 THEN NewValidator
    ELSE _ValidateLine(SetOutputStream(Replay(h, n - 1), h[n].stream), h[n].text)

\* the history with every line's stream replaced by st
WithStream(h, st) == [i \in 1..Len(h) |-> [text |-> h[i].text, stream |-> st]]

SameRun(self) ==
    /\ line_number = self.line_number
    /\ output_log = self.output_log
    /\ written = self.written

(***************************************************************************)
(* C1.  main() exits with a non-zero status exactly when at least one      *)
(* ERROR was logged; warnings alone give status 0.                         *)
(***************************************************************************)
C1_ExitStatusIffErrorLogged ==
    (caller = "main" /\ pc = "exited")
        => ((exit_status # 0) <=> (CountErrorsOf(output_log, "ERROR") > 0))

(***************************************************************************)
(* C2.  No exception leaves Validate, whatever the lines of the feed are.  *)
(***************************************************************************)
C2_ValidateNeverRaises == ~raised

(***************************************************************************)
(* C3.  The WARNING log holds exactly one "5 fields were expected (got     *)
(* N)." per data line whose field count N is not 5, in feed order, and     *)
(* nothing else, whether or not the line's fields gave ERRORs.             *)
(***************************************************************************)
FieldCountWarning(n) ==
    "WARNING: 5 fields were expected (got " \o ToString(n) \o ").\n"

C3_FieldCountWarnings ==
    /\ LogOf("WARNING") =
         Flatten([i \in Consumed |->
                    IF IsRecord(i) /\ Len(FieldsOf(i)) # 5
                    THEN <<FieldCountWarning(Len(FieldsOf(i)))>> ELSE <<>>])
    /\ CountErrorsOf(output_log, "WARNING") =
         Cardinality({i \in Consumed : IsRecord(i) /\ Len(FieldsOf(i)) # 5})

\* a line of 5 fields and a line of fewer, both with ERRORs, were validated
C3_Witness ==
    /\ \E i \in Consumed : IsRecord(i) /\ Len(FieldsOf(i)) = 5
    /\ \E i \in Consumed : IsRecord(i) /\ Len(FieldsOf(i)) < 5
    /\ CountErrorsOf(output_log, "ERROR") > 3
    /\ CountErrorsOf(output_log, "WARNING") = 1
    /\ pc = "idle"

(***************************************************************************)
(* C4.  The fields validated are those of the text before the first '#'.   *)
(***************************************************************************)
C4_FieldsOfCommentStrippedText ==
    (Len(history) > 0 /\ IsRecord(Len(history)))
        => fields = CsvReader(BeforeComment(Len(history))).rows[1]

(***************************************************************************)
(* C5.  A field 0 with a '/' logs one ERROR "Incorrect IP Network." when   *)
(* it does not parse or has host bits set, nothing when its host bits are  *)
(* zero, and never "IP Address must not be private.".                      *)
(***************************************************************************)
C5_CIDRDiagnostics ==
    (pc = "applied" /\ arg.check = "address" /\ Contains(arg.text, "/"))
        => /\ output_log =
                IF IPNetwork(arg.text).ok
                   /\ IPNetwork(arg.text).network = IPNetwork(arg.text).ip
                THEN NoLog
                ELSE ("ERROR" :> <<"ERROR: Incorrect IP Network.\n">>)
           /\ \A i \in 1..Len(LogOf("ERROR")) :
                LogOf("ERROR")[i] # "ERROR: IP Address must not be private.\n"

\* a network in a private range, host bits zero, was checked
C5_Witness ==
    /\ pc = "applied" /\ arg.check = "address" /\ Contains(arg.text, "/")
    /\ IPNetwork(arg.text).ok
    /\ IPNetwork(arg.text).network = IPNetwork(arg.text).ip
    /\ IsPrivate(IPNetwork(arg.text).ip)
    /\ output_log = NoLog

(***************************************************************************)
(* The diagnostics the field rules give, in the words of the rules.        *)
(***************************************************************************)
ErrorLine(message) == "ERROR: " \o message \o "\n"

AddressDiagnostics(f) ==
    IF Contains(f, "/")
    THEN IF IPNetwork(f).ok /\ IPNetwork(f).network = IPNetwork(f).ip
         THEN <<>> ELSE <<ErrorLine("Incorrect IP Network.")>>
    ELSE IF ~IPAddress(f).ok THEN <<ErrorLine("Incorrect IP Address.")>>
    ELSE IF IsPrivate(IPAddress(f).ip)
    THEN <<ErrorLine("IP Address must not be private.")>>
    ELSE <<>>

Alpha2Diagnostics(c) ==
    IF c = <<>> \/ (Len(c) = 2 /\ c[1] \in Letters /\ c[2] \in Letters) THEN <<>>
    ELSE <<ErrorLine("Alpha 2 code must be in the ISO 3166-1 alpha 2 format.")>>

RegionDiagnostics(r) ==
    IF r = <<>> THEN <<>>
    ELSE IF \A i \in 1..Len(r) : r[i] # "-"
    THEN <<ErrorLine("Region code must be in ISO 3166-2 format.")>>
    ELSE Alpha2Diagnostics(SubSeq(r, 1, FirstIndex(r, "-") - 1))

\* the diagnostics of a record, in the order address, country code, region
\* code, field count
RecordDiagnostics(fs) ==
    AddressDiagnostics(fs[1])
    \o (IF Len(fs) > 1 THEN Alpha2Diagnostics(fs[2]) ELSE <<>>)
    \o (IF Len(fs) > 2 THEN RegionDiagnostics(fs[3]) ELSE <<>>)
    \o (IF Len(fs) # 5 THEN <<FieldCountWarning(Len(fs))>> ELSE <<>>)

ContextBlock(i) == "line " \o ToString(i) \o ": " \o Str(BeforeComment(i)) \o "\n\n"

\* what line i puts on the stream: its diagnostics, then its context block
\* if there was a diagnostic
LineOutput(i) ==
    IF RecordDiagnostics(FieldsOf(i)) = <<>> THEN <<>>
    ELSE Append(RecordDiagnostics(FieldsOf(i)), ContextBlock(i))

(***************************************************************************)
(* C6.  With the stream set to None for the whole run nothing is written,  *)
(* and the log (so both counts) is the one the same lines give with a      *)
(* stream set.                                                             *)
(***************************************************************************)
C6_DisabledSinkKeepsLog ==
    (\A i \in Consumed : history[i].stream = None)
        => /\ \A st \in Streams : written[st] = <<>>
           /\ output_log = Replay(WithStream(history, "stderr"), Len(history)).output_log

\* lines that give an ERROR and a WARNING were validated without a stream
C6_Witness ==
    /\ Len(history) > 0
    /\ \A i \in Consumed : history[i].stream = None
    /\ CountErrorsOf(output_log, "ERROR") > 0
    /\ CountErrorsOf(output_log, "WARNING") > 0
    /\ ~raised

(***************************************************************************)
(* C7.  A blank or comment line changes neither the log nor the stream     *)
(* and is not validated; every other line that is read to its end is       *)
(* validated.                                                              *)
(***************************************************************************)
C7_IgnoredLinesChangeNothing ==
    [][Len(history') = Len(history) + 1
        => /\ IsBlankOrComment(history'[Len(history')].text)
                => /\ output_log' = output_log
                   /\ written' = written
                   /\ validated' = validated
           /\ (~IsBlankOrComment(history'[Len(history')].text) /\ ~raised')
                => validated' = validated + 1]_vars

\* a comment line was read after a line that gave diagnostics
C7_Witness ==
    /\ Len(history) = 2
    /\ IsBlankOrComment(history[2].text)
    /\ \E i \in 1..Len(history[2].text) : history[2].text[i] = "#"
    /\ CountErrorsOf(output_log, "ERROR") > 0
    /\ Len(written["stderr"]) > 0
    /\ line_number = 2

(***************************************************************************)
(* C8.  The stream holds, for each data line in feed order, the line's     *)
(* diagnostics in the order address, country code, region code, field      *)
(* count, then one context block "line N: <text before '#'>" exactly when  *)
(* the line had a diagnostic, N the line's position in the feed.           *)
(***************************************************************************)
C8_StreamContent ==
    \A st \in Streams :
        written[st] =
            Flatten([i \in Consumed |->
                       IF history[i].stream = st /\ IsRecord(i)
                       THEN LineOutput(i) ELSE <<>>])

\* a comment line, then a line with two ERRORs and a WARNING, on the stream
C8_Witness ==
    /\ Len(history) = 2
    /\ IsBlankOrComment(history[1].text)
    /\ IsRecord(2) /\ history[2].stream = "stderr"
    /\ Len(RecordDiagnostics(FieldsOf(2))) = 3
    /\ Len(written["stderr"]) = 4
    /\ written["stderr"][4] = ContextBlock(2)

(***************************************************************************)
(* C9.  The region code check logs nothing for an empty text, the region   *)
(* ERROR for a text without '-', and otherwise what the alpha-2 check      *)
(* gives for the text before the first '-'.                                *)
(***************************************************************************)
C9_RegionCodeDiagnostics ==
    (pc = "applied" /\ arg.check = "region")
        => /\ LogOf("ERROR") = RegionDiagnostics(arg.text)
           /\ LogOf("WARNING") = <<>>
           /\ result = (RegionDiagnostics(arg.text) = <<>>)

\* a region code with nothing before its '-' and text after it was accepted
C9_Witness ==
    /\ pc = "applied" /\ arg.check = "region"
    /\ Len(arg.text) > 1 /\ arg.text[1] = "-"
    /\ output_log = NoLog
    /\ result = TRUE

(***************************************************************************)
(* C10.  Validate resets nothing: after any calls the line counter, the    *)
(* log and the stream content are those of one call on a fresh validator   *)
(* with all the lines, and the counter is the number of lines read.        *)
(***************************************************************************)
C10_ValidateResetsNothing ==
    /\ SameRun(Replay(history, Len(history)))
    /\ line_number = Len(history)

\* a second Validate call read a line after a first call had read one
C10_Witness ==
    /\ Len(calls) = 2 /\ calls[2] = 1
    /\ Len(history) = 2
    /\ IsRecord(1) /\ RecordDiagnostics(FieldsOf(1)) # <<>>
    /\ IsRecord(2) /\ RecordDiagnostics(FieldsOf(2)) # <<>>
    /\ pc = "idle"

====
